---- MODULE Spec2Model ----
(***************************************************************************)
(* A model of the Oat shared-memory dataflow fabric.                       *)
(*                                                                         *)
(* Part 1 (Spec, FairSpec): one Node with one Sink and NumSources Sources. *)
(*   The Node, Sink and Source operations (lib/shmemdf) follow spec.md 3,  *)
(*   4.1, 4.2, 4.3.  Every Node operation is one critical section on the   *)
(*   Node's mutex, hence one atomic step; a blocking condition-variable    *)
(*   wait is a guard.  The payload is the one field accessed outside the   *)
(*   mutex (spec.md 5), between a wait and the post that follows it.  The  *)
(*   order in which a component calls the operations is that of            *)
(*   Decorator::decorateFrame (src/src/decorator/Decorator.cpp).           *)
(*                                                                         *)
(* Part 2 (SpecServer): NumServers SMServer objects constructed with the   *)
(*   same sink name (src/lib/shmem/SMServer.h) and the operating system's  *)
(*   table of named shared memory.  A region is identified by the server   *)
(*   that created it.                                                      *)
(*                                                                         *)
(* Part 3 (SpecBridge): the buffered bridge of spec.md 4.4; Buffer.h holds *)
(*   its members, the push and pop steps follow spec.md 4.4.               *)
(*   The inbound Source hands out the indices 0, 1, 2, ...; the outbound   *)
(*   Node is reduced to whether its readers acknowledged the last sample.  *)
(***************************************************************************)
EXTENDS Integers, Sequences, FiniteSets, TLC

\* ---------------------------------------------------------------- bounds
NumSources == 2
MaxSamples == 2

NumServers == 2
MaxWrites == 2
NumClients == 1

QueueCapacity == 2
MaxInput == 4

NumFrameSources == 2
NumPositionSources == 1
FrameWriteBufferSize == 1
MaxTicks == 2

MaxLines == 3

NumPositionNodes == 2
MaxBytes == 2
MaxUpstreamSamples == 1

\* the width of TestPosition::sample (uint32_t), scaled down
SampleBits == 3
NumPositions == 2

Sources == 1 .. NumSources
Servers == 1 .. NumServers
Clients == 1 .. NumClients
FrameSources == 1 .. NumFrameSources
PositionSources == 1 .. NumPositionSources
PositionNodes == 1 .. NumPositionNodes

\* ------------------------------------------------------------ Node state
VARIABLES
    region_exists,       \* the shared region <A>_sh_mem exists under its name
    sink_present,        \* byte cleared only by the owning Sink's drop
    state,               \* UNDEFINED, SINK_BOUND, SOURCE_WAITING, END
    sample_count,        \* published samples
    source_ref_count,    \* Sources currently attached
    acknowledged_reads,  \* Sources that posted for the current sample
    payload,             \* the payload region: the index of the sample in it
    \* ------------------------------------------------- Sink, process-local
    sink_pc,             \* unbound, bound, writing, written, closed
    \* ----------------------------------------------- Source, process-local
    src_pc,              \* detached, touched, connected, holding, copied,
                         \* ended, dropped
    last_seen_count,     \* the sample_count the Source has seen
    posted,              \* the Source posted for the sample it saw last
    observed,            \* the sample indices the Source copied out
    attach_count,        \* sample_count at the Source's touch (history)
    \* ------------------------------------------------- SMServer, SMClient
    shmem_named,         \* the region the name <A>_sh_mem denotes, or NoRegion
    region_value,        \* per region: the value in its shared object
    shared_object_created, \* per server: SMServer::shared_object_created
    shared_object,       \* per server: the region SMServer::shared_object
                         \* points into, or NoRegion while uninitialised
    srv_status,          \* per server: alive, crashed, destroyed
    srv_writes,          \* per server: set_value calls made
    ub_access,           \* servers that accessed *shared_object uninitialised
    client_region,       \* per client: the region it has mapped, or NoRegion
    client_value,        \* per client: the value it read last
    \* ----------------------------------------------------- buffered bridge
    policy,              \* BLOCK or DROP_NEWEST, fixed at construction
    queue,               \* the SPSC queue
    hand,                \* the sample the source-side thread is pushing
    in_next,             \* the index the inbound Source hands out next
    in_read,             \* the indices read from the inbound Source
    dropped,             \* the indices dropped on a full queue
    pc_in,               \* source-side thread: idle, push, ended
    sink_running,        \* Buffer::sink_running_
    pc_out,              \* sink-side thread: cv_wait, drain, sink_wait,
                         \* copy, post, pop, exited
    out_acked,           \* the outbound Node's readers acknowledged
    out_payload,         \* the outbound Sink's mutable view
    out_published,       \* the indices published on the outbound Sink
    out_state            \* the outbound Node's state

\* -------------------------------------------------------------- Recorder
VARIABLES
    running,             \* Recorder::running
    frame_client_idx,    \* Recorder::frame_client_idx
    position_client_idx, \* Recorder::position_client_idx
    frame_read_success,  \* Recorder::frame_read_success
    current_frame,       \* Recorder::current_frame: the frame read last
    source_positions,    \* Recorder::source_positions, per position source
    frame_write_buffers, \* per frame stream: the SPSC queue
    video_files,         \* per frame stream: the frames written to its file
    video_writers,       \* per frame stream: isOpened and the initializeWriter calls
    open_succeeds,       \* cv::VideoWriter::open succeeds on this machine
    position_file,       \* the records appended to the position JSON array
    rec_pc,              \* coordinator: idle, frames, push, positions,
                         \* check, joining, destroyed
    writer_pc,           \* per writer thread: loop, wait, check, exited
    frames_delivered,    \* per frame source: samples it delivered
    positions_delivered, \* per position source: samples it delivered
    tick_interrupted,    \* a read of the tick in progress failed (history)
    record_resumed       \* the last record closed an interrupted tick

\* ------------------------------------------------------- controlRecorder
VARIABLES
    in_lines,            \* the command stream: its lines, each ended by \n
    in_pos,              \* the next line of the stream to be extracted
    in_eofbit,           \* std::ios_base::eofbit of the stream
    in_failbit,          \* std::ios_base::failbit of the stream
    cmd,                 \* the local std::string cmd
    ctl_pc,              \* loop, returned
    record_on,           \* the Recorder's record_on flag
    record_on_initial,   \* record_on when controlRecorder was called
    lines_read,          \* the lines std::getline extracted (history)
    out_last             \* the last message written to out

\* ------------------------------------------- Decorator::connectToNodes
VARIABLES
    upstream_state,      \* per upstream Node (0: frames, 1..: positions)
    upstream_bytes,      \* payload bytes of the upstream frame Node
    dec_pc,              \* frame_touch, frame_connect, parameters,
                         \* pos_touch, pos_connect, bind, retrieve, done
    dec_pos_idx,         \* the position source the current loop is at
    frame_source_,       \* detached, touched, connected
    position_sources_,   \* per position source: detached, touched, connected
    param_bytes,         \* param.bytes, or NoParam
    frame_sink_bound,    \* frame_sink_ is bound
    frame_sink_bytes,    \* the payload size frame_sink_ was bound with
    retrieve_calls,      \* calls of frame_sink_.retrieve
    dec_published        \* decorateFrame has published a frame

\* -------------------------------------------- Decorator::decorateFrame
VARIABLES
    upstream_count,      \* per upstream Node: its sample_count
    dec_last_seen,       \* per Source of the Decorator: its last_seen_count
    dec_holding,         \* the Sources whose wait returned a sample and
                         \* that have not posted since
    frame_sink_acked,    \* the readers of frame_sink_'s Node acknowledged
    df_wait_result,      \* the NodeState the last Source wait returned
    df_end_seen,         \* a Source wait of this call returned END
    df_waits,            \* per Source: waits of this call that gave a sample
    df_posts,            \* per Source: posts of this call
    df_sink_waits,       \* frame_sink_.wait() calls of this call
    df_sink_posts,       \* frame_sink_.post() calls of this call
    df_result            \* what the last decorateFrame call returned

\* ------------------------------------- TestPosition (TestPosition.h)
VARIABLES
    sample,              \* TestPosition::sample, an unsigned SampleBits-bit integer
    position_sink,       \* what pushObject was given, call by call
    process_result       \* what the last process() call returned: none, false, true

nodeVars == <<region_exists, sink_present, state, sample_count,
              source_ref_count, acknowledged_reads, payload>>
sinkVars == <<sink_pc>>
srcVars  == <<src_pc, last_seen_count, posted, observed, attach_count>>
serverVars == <<shmem_named, region_value, shared_object_created,
                shared_object, srv_status, srv_writes, ub_access,
                client_region, client_value>>
bridgeVars == <<policy, queue, hand, in_next, in_read, dropped, pc_in,
                sink_running, pc_out, out_acked, out_payload, out_published,
                out_state>>
recVars == <<running, frame_client_idx, position_client_idx,
             frame_read_success, current_frame, source_positions,
             frame_write_buffers, video_files, video_writers, open_succeeds,
             position_file, rec_pc,
             writer_pc, frames_delivered, positions_delivered,
             tick_interrupted, record_resumed>>
ctlVars == <<in_lines, in_pos, in_eofbit, in_failbit, cmd, ctl_pc,
             record_on, record_on_initial, lines_read, out_last>>
decVars == <<upstream_state, upstream_bytes, dec_pc, dec_pos_idx,
             frame_source_, position_sources_, param_bytes,
             frame_sink_bound, frame_sink_bytes, retrieve_calls,
             dec_published>>
dfCall == <<df_wait_result, df_end_seen, df_waits, df_posts, df_sink_waits,
            df_sink_posts, df_result>>
dfVars == <<upstream_count, dec_last_seen, dec_holding, frame_sink_acked,
            dfCall>>
tpVars == <<sample, position_sink, process_result>>
toolVars == <<recVars, ctlVars, decVars, dfVars, tpVars>>
vars     == <<nodeVars, sinkVars, srcVars, serverVars, bridgeVars, toolVars>>

nodeIdle   == UNCHANGED <<nodeVars, sinkVars, srcVars, toolVars>>
serverIdle == UNCHANGED <<serverVars, bridgeVars, toolVars>>
bridgeIdle == UNCHANGED bridgeVars

NoPayload == -1

Attached(s) == src_pc[s] \in {"touched", "connected", "holding", "copied", "ended"}

InitNode ==
    /\ region_exists = FALSE
    /\ sink_present = FALSE
    /\ state = "UNDEFINED"
    /\ sample_count = 0
    /\ source_ref_count = 0
    /\ acknowledged_reads = 0
    /\ payload = NoPayload
    /\ sink_pc = "unbound"
    /\ src_pc = [s \in Sources |-> "detached"]
    /\ last_seen_count = [s \in Sources |-> 0]
    /\ posted = [s \in Sources |-> FALSE]
    /\ observed = [s \in Sources |-> << >>]
    /\ attach_count = [s \in Sources |-> 0]

\* ------------------------------------------------------- Node operations
\* Sink bind (4.1): open-or-create the region, find-or-construct the Node
\* zero-initialised, refuse an address whose Sink is present, go SINK_BOUND.
Sink_bind ==
    /\ ~sink_present
    /\ region_exists' = TRUE
    /\ sink_present' = TRUE
    /\ state' = "SINK_BOUND"
    /\ UNCHANGED <<sample_count, source_ref_count, acknowledged_reads, payload>>

\* Sink wait (4.2 step 3): waits on write_ready while
\* acknowledged_reads < source_ref_count.
Sink_wait ==
    /\ ~(acknowledged_reads < source_ref_count)
    /\ UNCHANGED nodeVars

\* Sink post (4.2 step 1): acknowledged_reads = 0, sample_count + 1,
\* state = SOURCE_WAITING, broadcast read_ready.
Sink_post ==
    /\ acknowledged_reads' = 0
    /\ sample_count' = sample_count + 1
    /\ state' = "SOURCE_WAITING"
    /\ UNCHANGED <<region_exists, sink_present, source_ref_count, payload>>

Sink_close_ResetsCount ==
    /\ state' = "END"
    /\ region_exists' = FALSE
    /\ sink_present' = FALSE
    /\ sample_count' = 0
    /\ UNCHANGED <<source_ref_count, acknowledged_reads, payload>>

\* Sink drop (4.2 end-of-stream): state = END, broadcast read_ready, drop
\* the region.
Sink_close ==
    /\ state' = "END"
    /\ region_exists' = FALSE
    /\ sink_present' = FALSE
    /\ UNCHANGED <<sample_count, source_ref_count, acknowledged_reads, payload>>

Source_touch_SeenNothing(s) ==
    /\ region_exists
    /\ source_ref_count' = source_ref_count + 1
    /\ last_seen_count' = [last_seen_count EXCEPT ![s] = 0]
    /\ posted' = [posted EXCEPT ![s] = FALSE]
    /\ attach_count' = [attach_count EXCEPT ![s] = sample_count]
    /\ UNCHANGED <<region_exists, sink_present, state, sample_count,
                   acknowledged_reads, payload>>

\* Source touch (4.1, 4.2 tie-breaks): NotFound while no region exists;
\* atomically increments source_ref_count; the current sample_count becomes
\* the Source's last_seen_count.
Source_touch(s) ==
    /\ region_exists
    /\ source_ref_count' = source_ref_count + 1
    /\ last_seen_count' = [last_seen_count EXCEPT ![s] = sample_count]
    /\ posted' = [posted EXCEPT ![s] = FALSE]
    /\ attach_count' = [attach_count EXCEPT ![s] = sample_count]
    /\ UNCHANGED <<region_exists, sink_present, state, sample_count,
                   acknowledged_reads, payload>>

\* Source connect (4.1): blocks until state is SINK_BOUND or SOURCE_WAITING.
Source_connect(s) ==
    /\ state \in {"SINK_BOUND", "SOURCE_WAITING"}
    /\ UNCHANGED nodeVars

\* Source wait (4.2 step 2, 4.3): blocks while last_seen_count equals
\* sample_count; a Source waking on a terminal Node returns END.
Source_wait_blocked(s) ==
    /\ state # "END"
    /\ last_seen_count[s] = sample_count

Source_wait_END(s) ==
    /\ state = "END"
    /\ UNCHANGED <<nodeVars, last_seen_count, posted>>

Source_wait_OK(s) ==
    /\ state # "END"
    /\ last_seen_count[s] # sample_count
    /\ last_seen_count' = [last_seen_count EXCEPT ![s] = sample_count]
    /\ posted' = [posted EXCEPT ![s] = FALSE]
    /\ UNCHANGED nodeVars

Source_post_CountsTwice(s) ==
    /\ acknowledged_reads' = acknowledged_reads + 2
    /\ posted' = [posted EXCEPT ![s] = TRUE]
    /\ UNCHANGED <<region_exists, sink_present, state, sample_count,
                   source_ref_count, payload, last_seen_count>>

\* Source post (4.2 step 2): increments acknowledged_reads; signals
\* write_ready when it reaches source_ref_count.
Source_post(s) ==
    /\ acknowledged_reads' = acknowledged_reads + 1
    /\ posted' = [posted EXCEPT ![s] = TRUE]
    /\ UNCHANGED <<region_exists, sink_present, state, sample_count,
                   source_ref_count, payload, last_seen_count>>

Source_drop_AlwaysUnacks(s) ==
    /\ source_ref_count' = source_ref_count - 1
    /\ acknowledged_reads' = acknowledged_reads - 1
    /\ UNCHANGED <<region_exists, sink_present, state, sample_count, payload>>

\* Source drop (4.2 tie-breaks): decrements source_ref_count and, if the
\* Source had posted for the current cycle, acknowledged_reads.
Source_drop(s) ==
    /\ source_ref_count' = source_ref_count - 1
    /\ acknowledged_reads' =
         IF posted[s] /\ last_seen_count[s] = sample_count
         THEN acknowledged_reads - 1
         ELSE acknowledged_reads
    /\ UNCHANGED <<region_exists, sink_present, state, sample_count, payload>>

\* --------------------------------------------------- the writing component
SinkBind ==
    /\ sink_pc = "unbound"
    /\ Sink_bind
    /\ sink_pc' = "bound"
    /\ UNCHANGED srcVars
    /\ serverIdle

\* frame_sink_.wait()
SinkWait_NoWait ==
    /\ sink_pc = "bound"
    /\ sample_count < MaxSamples
    /\ sink_pc' = "writing"
    /\ UNCHANGED <<nodeVars, srcVars>>
    /\ serverIdle

SinkWait ==
    /\ sink_pc = "bound"
    /\ sample_count < MaxSamples
    /\ Sink_wait
    /\ sink_pc' = "writing"
    /\ UNCHANGED srcVars
    /\ serverIdle

\* internal_frame_.copyTo(shared_frame_)
SinkWrite ==
    /\ sink_pc = "writing"
    /\ payload' = sample_count
    /\ sink_pc' = "written"
    /\ UNCHANGED <<region_exists, sink_present, state, sample_count,
                   source_ref_count, acknowledged_reads, srcVars>>
    /\ serverIdle

\* frame_sink_.post()
SinkPost_Twice ==
    /\ sink_pc = "written"
    /\ acknowledged_reads' = 0
    /\ sample_count' = sample_count + 2
    /\ state' = "SOURCE_WAITING"
    /\ sink_pc' = "bound"
    /\ UNCHANGED <<region_exists, sink_present, source_ref_count, payload,
                   srcVars>>
    /\ serverIdle

SinkPost ==
    /\ sink_pc = "written"
    /\ Sink_post
    /\ sink_pc' = "bound"
    /\ UNCHANGED srcVars
    /\ serverIdle

\* the Sink is dropped between two cycles, or out of a timed wait
SinkClose ==
    /\ sink_pc = "bound"
    /\ Sink_close
    /\ sink_pc' = "closed"
    /\ UNCHANGED srcVars
    /\ serverIdle

\* --------------------------------------------------- a reading component
SourceTouch(s) ==
    /\ src_pc[s] = "detached"
    /\ Source_touch(s)
    /\ src_pc' = [src_pc EXCEPT ![s] = "touched"]
    /\ UNCHANGED <<sinkVars, observed>>
    /\ serverIdle

SourceConnect(s) ==
    /\ src_pc[s] = "touched"
    /\ Source_connect(s)
    /\ src_pc' = [src_pc EXCEPT ![s] = "connected"]
    /\ UNCHANGED <<sinkVars, last_seen_count, posted, observed, attach_count>>
    /\ serverIdle

\* if (frame_source_.wait() == oat::NodeState::END) return true;
SourceWait_IgnoreEND(s) ==
    /\ src_pc[s] = "connected"
    /\ \/ Source_wait_END(s)
       \/ Source_wait_OK(s)
    /\ src_pc' = [src_pc EXCEPT ![s] = "holding"]
    /\ UNCHANGED <<sinkVars, observed, attach_count>>
    /\ serverIdle

SourceWait(s) ==
    /\ src_pc[s] = "connected"
    /\ \/ Source_wait_END(s) /\ src_pc' = [src_pc EXCEPT ![s] = "ended"]
       \/ Source_wait_OK(s) /\ src_pc' = [src_pc EXCEPT ![s] = "holding"]
    /\ UNCHANGED <<sinkVars, observed, attach_count>>
    /\ serverIdle

\* frame_source_.copyTo(internal_frame_)
SourceCopy_BeforeWait(s) ==
    /\ src_pc[s] \in {"connected", "holding"}
    /\ observed' = [observed EXCEPT ![s] = Append(@, payload)]
    /\ src_pc' = [src_pc EXCEPT
                     ![s] = IF @ = "holding" THEN "copied" ELSE "connected"]
    /\ UNCHANGED <<nodeVars, sinkVars, last_seen_count, posted, attach_count>>
    /\ serverIdle

SourceCopy(s) ==
    /\ src_pc[s] = "holding"
    /\ observed' = [observed EXCEPT ![s] = Append(@, payload)]
    /\ src_pc' = [src_pc EXCEPT ![s] = "copied"]
    /\ UNCHANGED <<nodeVars, sinkVars, last_seen_count, posted, attach_count>>
    /\ serverIdle

\* frame_source_.post()
SourcePost(s) ==
    /\ src_pc[s] = "copied"
    /\ Source_post(s)
    /\ src_pc' = [src_pc EXCEPT ![s] = "connected"]
    /\ UNCHANGED <<sinkVars, observed, attach_count>>
    /\ serverIdle

\* the Source is dropped at any point of the cycle
SourceDrop(s) ==
    /\ Attached(s)
    /\ Source_drop(s)
    /\ src_pc' = [src_pc EXCEPT ![s] = "dropped"]
    /\ UNCHANGED <<sinkVars, last_seen_count, posted, observed, attach_count>>
    /\ serverIdle

NextNode ==
    \/ SinkBind
    \/ SinkWait
    \/ SinkWrite
    \/ SinkPost
    \/ SinkClose
    \/ \E s \in Sources : SourceTouch(s)
    \/ \E s \in Sources : SourceConnect(s)
    \/ \E s \in Sources : SourceWait(s)
    \/ \E s \in Sources : SourceCopy(s)
    \/ \E s \in Sources : SourcePost(s)
    \/ \E s \in Sources : SourceDrop(s)


\* ------------------------------------------------- SMServer (lib/shmem)
NoRegion == 0
NoValue == [by |-> 0, n |-> 0]

InitServer ==
    /\ shmem_named = NoRegion
    /\ region_value = [r \in Servers |-> NoValue]
    /\ shared_object_created = [s \in Servers |-> FALSE]
    /\ shared_object = [s \in Servers |-> NoRegion]
    /\ srv_status = [s \in Servers |-> "alive"]
    /\ srv_writes = [s \in Servers |-> 0]
    /\ ub_access = {}
    /\ client_region = [c \in Clients |-> NoRegion]
    /\ client_value = [c \in Clients |-> NoValue]

\* SMServer::createSharedObject: remove whatever the name denotes, then
\* open_or_create and find_or_construct; bad_alloc is caught and leaves
\* shared_object_created false.  Written as the values the fields take.
createSharedObject_named(s, alloc_ok) ==
    IF alloc_ok THEN s ELSE NoRegion

createSharedObject_created(s, alloc_ok) == alloc_ok

\* SMServer::set_value: create the shared object on first use, then lock,
\* write, notify_all.  After a failed creation the lock is taken through
\* the uninitialised shared_object: the call crashes the process or goes on
\* over arbitrary memory.
SMServer_set_value(s, alloc_ok, crash) ==
    /\ srv_status[s] = "alive"
    /\ srv_writes[s] < MaxWrites
    /\ srv_writes' = [srv_writes EXCEPT ![s] = @ + 1]
    /\ IF shared_object_created[s]
       THEN /\ region_value' = [region_value EXCEPT
                   ![shared_object[s]] = [by |-> s, n |-> srv_writes[s] + 1]]
            /\ UNCHANGED <<shmem_named, shared_object_created, shared_object,
                           srv_status, ub_access>>
       ELSE /\ shmem_named' = createSharedObject_named(s, alloc_ok)
            /\ shared_object_created' = [shared_object_created EXCEPT
                   ![s] = createSharedObject_created(s, alloc_ok)]
            /\ IF alloc_ok
               THEN /\ shared_object' = [shared_object EXCEPT ![s] = s]
                    /\ region_value' = [region_value EXCEPT
                           ![s] = [by |-> s, n |-> srv_writes[s] + 1]]
                    /\ UNCHANGED <<srv_status, ub_access>>
               ELSE /\ ub_access' = ub_access \cup {s}
                    /\ srv_status' = [srv_status EXCEPT
                           ![s] = IF crash THEN "crashed" ELSE "alive"]
                    /\ UNCHANGED <<shared_object, region_value>>
    /\ UNCHANGED <<client_region, client_value>>

\* SMServer::~SMServer: notify_all through shared_object, then remove the
\* name, whichever region it denotes.
SMServer_destroy(s) ==
    /\ srv_status[s] = "alive"
    /\ srv_status' = [srv_status EXCEPT ![s] = "destroyed"]
    /\ ub_access' = IF shared_object_created[s]
                    THEN ub_access ELSE ub_access \cup {s}
    /\ shmem_named' = NoRegion
    /\ UNCHANGED <<region_value, shared_object_created, shared_object,
                   srv_writes, client_region, client_value>>

\* a client opens the region the name denotes and maps it
SMClient_attach(c) ==
    /\ client_region[c] = NoRegion
    /\ shmem_named # NoRegion
    /\ client_region' = [client_region EXCEPT ![c] = shmem_named]
    /\ UNCHANGED <<shmem_named, region_value, shared_object_created,
                   shared_object, srv_status, srv_writes, ub_access,
                   client_value>>

\* a client reads the value in the region it has mapped
SMClient_read(c) ==
    /\ client_region[c] # NoRegion
    /\ client_value' = [client_value EXCEPT
                           ![c] = region_value[client_region[c]]]
    /\ UNCHANGED <<shmem_named, region_value, shared_object_created,
                   shared_object, srv_status, srv_writes, ub_access,
                   client_region>>

ServerSetValue ==
    /\ \E s \in Servers, alloc_ok \in BOOLEAN, crash \in BOOLEAN :
          SMServer_set_value(s, alloc_ok, crash)
    /\ nodeIdle
    /\ bridgeIdle

ServerDestroy ==
    /\ \E s \in Servers : SMServer_destroy(s)
    /\ nodeIdle
    /\ bridgeIdle

ClientAttach ==
    /\ \E c \in Clients : SMClient_attach(c)
    /\ nodeIdle
    /\ bridgeIdle

ClientRead ==
    /\ \E c \in Clients : SMClient_read(c)
    /\ nodeIdle
    /\ bridgeIdle

NextServer ==
    \/ ServerSetValue
    \/ ServerDestroy
    \/ ClientAttach
    \/ ClientRead


\* ------------------------------------------------ buffered bridge (4.4)
NoSample == -1

InitBridgeWith(p) ==
    /\ policy = p
    /\ queue = << >>
    /\ hand = NoSample
    /\ in_next = 0
    /\ in_read = << >>
    /\ dropped = << >>
    /\ pc_in = "idle"
    /\ sink_running = TRUE
    /\ pc_out = "cv_wait"
    /\ out_acked = TRUE
    /\ out_payload = NoSample
    /\ out_published = << >>
    /\ out_state = "SINK_BOUND"

InitBridge == \E p \in {"BLOCK", "DROP_NEWEST"} : InitBridgeWith(p)

bridgeRest == <<nodeVars, sinkVars, srcVars, serverVars, toolVars>>

\* source-side thread: pull one sample from the inbound Source
\* (wait, copy, post)
BridgePull ==
    /\ pc_in = "idle"
    /\ sink_running
    /\ in_next < MaxInput
    /\ hand' = in_next
    /\ in_read' = Append(in_read, in_next)
    /\ in_next' = in_next + 1
    /\ pc_in' = "push"
    /\ UNCHANGED <<policy, queue, dropped, sink_running, pc_out, out_acked,
                   out_payload, out_published, out_state, bridgeRest>>

\* source-side thread: the inbound Source's wait returned END
BridgePullEND ==
    /\ pc_in = "idle"
    /\ sink_running
    /\ pc_in' = "ended"
    /\ UNCHANGED <<policy, queue, hand, in_next, in_read, dropped,
                   sink_running, pc_out, out_acked, out_payload,
                   out_published, out_state, bridgeRest>>

\* source-side thread: push onto the queue; on a full queue the sample is
\* dropped (DROP_NEWEST) or the thread blocks (BLOCK)
BridgePush_AlwaysDrops ==
    /\ pc_in = "push"
    /\ IF Len(queue) < QueueCapacity
       THEN queue' = Append(queue, hand) /\ UNCHANGED dropped
       ELSE dropped' = Append(dropped, hand) /\ UNCHANGED queue
    /\ hand' = NoSample
    /\ pc_in' = "idle"
    /\ UNCHANGED <<policy, in_next, in_read, sink_running, pc_out, out_acked,
                   out_payload, out_published, out_state, bridgeRest>>

BridgePush_OverCapacity ==
    /\ pc_in = "push"
    /\ queue' = Append(queue, hand)
    /\ hand' = NoSample
    /\ pc_in' = "idle"
    /\ UNCHANGED <<policy, in_next, in_read, dropped, sink_running, pc_out,
                   out_acked, out_payload, out_published, out_state,
                   bridgeRest>>

BridgePush ==
    /\ pc_in = "push"
    /\ IF Len(queue) < QueueCapacity
       THEN queue' = Append(queue, hand) /\ UNCHANGED dropped
       ELSE /\ policy = "DROP_NEWEST"
            /\ dropped' = Append(dropped, hand)
            /\ UNCHANGED queue
    /\ hand' = NoSample
    /\ pc_in' = "idle"
    /\ UNCHANGED <<policy, in_next, in_read, sink_running, pc_out, out_acked,
                   out_payload, out_published, out_state, bridgeRest>>

\* sink-side thread: the timed wait on pop_cv returns (signal or timeout)
PumpWake ==
    /\ pc_out = "cv_wait"
    /\ pc_out' = "drain"
    /\ UNCHANGED <<policy, queue, hand, in_next, in_read, dropped, pc_in,
                   sink_running, out_acked, out_payload, out_published,
                   out_state, bridgeRest>>

\* sink-side thread: while the queue has entries publish them; then wait
\* again while sink_running, else exit
PumpDrain ==
    /\ pc_out = "drain"
    /\ pc_out' = IF queue # << >> THEN "sink_wait"
                 ELSE IF sink_running THEN "cv_wait" ELSE "exited"
    /\ UNCHANGED <<policy, queue, hand, in_next, in_read, dropped, pc_in,
                   sink_running, out_acked, out_payload, out_published,
                   out_state, bridgeRest>>

\* sink-side thread: sink.wait() on the outbound Node
PumpSinkWait ==
    /\ pc_out = "sink_wait"
    /\ out_acked
    /\ pc_out' = "copy"
    /\ UNCHANGED <<policy, queue, hand, in_next, in_read, dropped, pc_in,
                   sink_running, out_acked, out_payload, out_published,
                   out_state, bridgeRest>>

\* sink-side thread: the timed wait inside sink.wait() observes the shutdown
\* flag within one tick (spec.md 5); the thread drained what it could
PumpSinkWaitStopped ==
    /\ pc_out = "sink_wait"
    /\ ~out_acked
    /\ ~sink_running
    /\ pc_out' = "exited"
    /\ UNCHANGED <<policy, queue, hand, in_next, in_read, dropped, pc_in,
                   sink_running, out_acked, out_payload, out_published,
                   out_state, bridgeRest>>

\* sink-side thread: copy the front entry into the Sink's mutable view
PumpCopy ==
    /\ pc_out = "copy"
    /\ out_payload' = Head(queue)
    /\ pc_out' = "post"
    /\ UNCHANGED <<policy, queue, hand, in_next, in_read, dropped, pc_in,
                   sink_running, out_acked, out_published, out_state,
                   bridgeRest>>

\* sink-side thread: sink.post()
PumpPost ==
    /\ pc_out = "post"
    /\ out_published' = Append(out_published, out_payload)
    /\ out_acked' = FALSE
    /\ pc_out' = "pop"
    /\ UNCHANGED <<policy, queue, hand, in_next, in_read, dropped, pc_in,
                   sink_running, out_payload, out_state, bridgeRest>>

\* sink-side thread: pop the front entry
PumpPop ==
    /\ pc_out = "pop"
    /\ queue' = Tail(queue)
    /\ pc_out' = "drain"
    /\ UNCHANGED <<policy, hand, in_next, in_read, dropped, pc_in,
                   sink_running, out_acked, out_payload, out_published,
                   out_state, bridgeRest>>

\* the readers of the outbound Node acknowledge the published sample
DownstreamAck ==
    /\ ~out_acked
    /\ out_acked' = TRUE
    /\ UNCHANGED <<policy, queue, hand, in_next, in_read, dropped, pc_in,
                   sink_running, pc_out, out_payload, out_published,
                   out_state, bridgeRest>>

\* shutdown: sink_running = false, pop_cv signalled
BridgeStop ==
    /\ pc_in \in {"idle", "ended"}
    /\ sink_running
    /\ sink_running' = FALSE
    /\ UNCHANGED <<policy, queue, hand, in_next, in_read, dropped, pc_in,
                   pc_out, out_acked, out_payload, out_published, out_state,
                   bridgeRest>>

BridgeJoin_NoJoin ==
    /\ ~sink_running
    /\ out_state # "END"
    /\ out_state' = "END"
    /\ UNCHANGED <<policy, queue, hand, in_next, in_read, dropped, pc_in,
                   sink_running, pc_out, out_acked, out_payload,
                   out_published, bridgeRest>>

\* shutdown: the sink-side thread has exited; the outbound Sink is dropped
\* and its Node goes END
BridgeJoin ==
    /\ ~sink_running
    /\ pc_out = "exited"
    /\ out_state # "END"
    /\ out_state' = "END"
    /\ UNCHANGED <<policy, queue, hand, in_next, in_read, dropped, pc_in,
                   sink_running, pc_out, out_acked, out_payload,
                   out_published, bridgeRest>>

NextBridge ==
    \/ BridgePull
    \/ BridgePullEND
    \/ BridgePush
    \/ PumpWake
    \/ PumpDrain
    \/ PumpSinkWait
    \/ PumpSinkWaitStopped
    \/ PumpCopy
    \/ PumpPost
    \/ PumpPop
    \/ DownstreamAck
    \/ BridgeStop
    \/ BridgeJoin

\* ------------------------------------------------ Recorder (Recorder.cpp)
recRest == <<nodeVars, sinkVars, srcVars, serverVars, bridgeVars, ctlVars,
             decVars, dfVars, tpVars>>

NoFrame == 0

\* Recorder::Recorder: running(true), the indices 0, frame_read_success
\* false unless there is no frame source; one queue, file, video writer (not
\* yet opened) and writer thread per frame stream; the position array is
\* opened.
InitRecorderWith(open_ok) ==
    /\ running = TRUE
    /\ open_succeeds = open_ok
    /\ frame_client_idx = 0
    /\ position_client_idx = 0
    /\ frame_read_success = (NumFrameSources = 0)
    /\ current_frame = NoFrame
    /\ source_positions = [j \in PositionSources |-> 0]
    /\ frame_write_buffers = [i \in FrameSources |-> << >>]
    /\ video_files = [i \in FrameSources |-> << >>]
    /\ video_writers = [i \in FrameSources |-> [opened |-> FALSE, inits |-> << >>]]
    /\ position_file = << >>
    /\ rec_pc = "idle"
    /\ writer_pc = [i \in FrameSources |-> "loop"]
    /\ frames_delivered = [i \in FrameSources |-> 0]
    /\ positions_delivered = [j \in PositionSources |-> 0]
    /\ tick_interrupted = FALSE
    /\ record_resumed = FALSE

InitRecorder == \E open_ok \in BOOLEAN : InitRecorderWith(open_ok)

\* the process loop calls writeStreams
writeStreams_call ==
    /\ rec_pc = "idle"
    /\ Len(position_file) < MaxTicks
    /\ rec_pc' = "frames"
    /\ UNCHANGED <<running, frame_client_idx, position_client_idx,
                   frame_read_success, current_frame, source_positions,
                   frame_write_buffers, video_files, video_writers,
                   open_succeeds, position_file, writer_pc, frames_delivered,
                   positions_delivered, tick_interrupted, record_resumed,
                   recRest>>

\* writeStreams, the frame loop: getSharedMat of the current frame source
\* either delivers its next frame (ok) or fails, which breaks the loop
writeStreams_getSharedMat(ok) ==
    /\ rec_pc = "frames"
    /\ IF frame_client_idx < NumFrameSources
       THEN /\ frame_read_success' = ok
            /\ IF ok
               THEN /\ frames_delivered' =
                         [frames_delivered EXCEPT ![frame_client_idx + 1] = @ + 1]
                    /\ current_frame' = frames_delivered[frame_client_idx + 1] + 1
                    /\ rec_pc' = "push"
                    /\ UNCHANGED tick_interrupted
               ELSE /\ rec_pc' = "positions"
                    /\ tick_interrupted' = TRUE
                    /\ UNCHANGED <<frames_delivered, current_frame>>
       ELSE /\ rec_pc' = "positions"
            /\ UNCHANGED <<frame_read_success, frames_delivered,
                           current_frame, tick_interrupted>>
    /\ UNCHANGED <<running, frame_client_idx, position_client_idx,
                   source_positions, frame_write_buffers, video_files,
                   video_writers, open_succeeds, position_file, writer_pc,
                   positions_delivered, record_resumed, recRest>>

writeStreams_push_StaysOnSource ==
    /\ rec_pc = "push"
    /\ frame_write_buffers' =
         IF Len(frame_write_buffers[frame_client_idx + 1]) < FrameWriteBufferSize
         THEN [frame_write_buffers EXCEPT
                 ![frame_client_idx + 1] = Append(@, current_frame)]
         ELSE frame_write_buffers
    /\ frame_client_idx' = frame_client_idx
    /\ rec_pc' = "frames"
    /\ UNCHANGED <<running, position_client_idx, frame_read_success,
                   current_frame, source_positions, video_files,
                   video_writers, open_succeeds, position_file, writer_pc,
                   frames_delivered, positions_delivered, tick_interrupted,
                   record_resumed, recRest>>

\* writeStreams, the frame loop: spsc_queue::push (its result is not
\* looked at: on a full queue nothing is stored), notify_one, next source
writeStreams_push ==
    /\ rec_pc = "push"
    /\ frame_write_buffers' =
         IF Len(frame_write_buffers[frame_client_idx + 1]) < FrameWriteBufferSize
         THEN [frame_write_buffers EXCEPT
                 ![frame_client_idx + 1] = Append(@, current_frame)]
         ELSE frame_write_buffers
    /\ frame_client_idx' = frame_client_idx + 1
    /\ rec_pc' = "frames"
    /\ UNCHANGED <<running, position_client_idx, frame_read_success,
                   current_frame, source_positions, video_files,
                   video_writers, open_succeeds, position_file, writer_pc,
                   frames_delivered, positions_delivered, tick_interrupted,
                   record_resumed, recRest>>

\* writeStreams, the position loop: getSharedObject of the current position
\* source delivers its next position (ok) or fails, which returns
writeStreams_getSharedObject(ok) ==
    /\ rec_pc = "positions"
    /\ IF position_client_idx < NumPositionSources
       THEN IF ok
            THEN /\ positions_delivered' =
                      [positions_delivered EXCEPT ![position_client_idx + 1] = @ + 1]
                 /\ source_positions' =
                      [source_positions EXCEPT ![position_client_idx + 1] =
                          positions_delivered[position_client_idx + 1] + 1]
                 /\ position_client_idx' = position_client_idx + 1
                 /\ UNCHANGED <<rec_pc, tick_interrupted>>
            ELSE /\ rec_pc' = "idle"
                 /\ tick_interrupted' = TRUE
                 /\ UNCHANGED <<positions_delivered, source_positions,
                                position_client_idx>>
       ELSE /\ rec_pc' = "check"
            /\ UNCHANGED <<positions_delivered, source_positions,
                           position_client_idx, tick_interrupted>>
    /\ UNCHANGED <<running, frame_client_idx, frame_read_success,
                   current_frame, frame_write_buffers, video_files,
                   video_writers, open_succeeds, position_file, writer_pc,
                   frames_delivered, record_resumed, recRest>>

\* Recorder::writePositionsToFile: one record, the time stamp of position
\* source 0 and every source's position
writePositionsToFile ==
    Append(position_file,
           [sample |-> positions_delivered[1], positions |-> source_positions])

writeStreams_finish_IgnoreFrameFailure ==
    /\ rec_pc = "check"
    /\ frame_client_idx' = 0
    /\ position_client_idx' = 0
    /\ position_file' = writePositionsToFile
    /\ record_resumed' = tick_interrupted
    /\ tick_interrupted' = FALSE
    /\ rec_pc' = "idle"
    /\ UNCHANGED <<running, frame_read_success, current_frame,
                   source_positions, frame_write_buffers, video_files,
                   video_writers, open_succeeds, writer_pc, frames_delivered,
                   positions_delivered, recRest>>

\* writeStreams, the end: return if the frame loop failed; else reset the
\* indices and write the positions
writeStreams_finish ==
    /\ rec_pc = "check"
    /\ IF ~frame_read_success
       THEN UNCHANGED <<frame_client_idx, position_client_idx, position_file,
                        record_resumed, tick_interrupted>>
       ELSE /\ frame_client_idx' = 0
            /\ position_client_idx' = 0
            /\ position_file' = writePositionsToFile
            /\ record_resumed' = tick_interrupted
            /\ tick_interrupted' = FALSE
    /\ rec_pc' = "idle"
    /\ UNCHANGED <<running, frame_read_success, current_frame,
                   source_positions, frame_write_buffers, video_files,
                   video_writers, open_succeeds, writer_pc, frames_delivered,
                   positions_delivered, recRest>>

Writer_loop_IgnoresRunning(i) ==
    /\ writer_pc[i] = "loop"
    /\ writer_pc' = [writer_pc EXCEPT ![i] = "wait"]
    /\ UNCHANGED <<running, frame_client_idx, position_client_idx,
                   frame_read_success, current_frame, source_positions,
                   frame_write_buffers, video_files, video_writers,
                   open_succeeds, position_file, rec_pc, frames_delivered,
                   positions_delivered, tick_interrupted, record_resumed,
                   recRest>>

\* writeFramesToFileFromBuffer: while (running)
Writer_loop(i) ==
    /\ writer_pc[i] = "loop"
    /\ writer_pc' = [writer_pc EXCEPT ![i] = IF running THEN "wait" ELSE "exited"]
    /\ UNCHANGED <<running, frame_client_idx, position_client_idx,
                   frame_read_success, current_frame, source_positions,
                   frame_write_buffers, video_files, video_writers,
                   open_succeeds, position_file, rec_pc, frames_delivered,
                   positions_delivered, tick_interrupted, record_resumed,
                   recRest>>

\* writeFramesToFileFromBuffer: wait_for returns, notified or after 10 ms
Writer_wait_for(i) ==
    /\ writer_pc[i] = "wait"
    /\ writer_pc' = [writer_pc EXCEPT ![i] = "check"]
    /\ UNCHANGED <<running, frame_client_idx, position_client_idx,
                   frame_read_success, current_frame, source_positions,
                   frame_write_buffers, video_files, video_writers,
                   open_succeeds, position_file, rec_pc, frames_delivered,
                   positions_delivered, tick_interrupted, record_resumed,
                   recRest>>

\* Recorder::initializeWriter for writer i with the front frame of the queue
\* of a stream: cv::VideoWriter::open, whose result is not looked at; it
\* succeeds or fails with the codec and the folder of the machine
initializeWriter(i, stream) ==
    [video_writers EXCEPT
        ![i] = [opened |-> open_succeeds,
                inits |-> Append(@.inits,
                                 [stream |-> stream,
                                  frame |-> Head(frame_write_buffers[stream])])]]

Writer_write_AlwaysInitializes(i) ==
    /\ writer_pc[i] = "check"
    /\ IF frame_write_buffers[i] # << >>
       THEN /\ video_writers' = initializeWriter(i, i)
            /\ video_files' =
                 [video_files EXCEPT ![i] = Append(@, Head(frame_write_buffers[i]))]
            /\ frame_write_buffers' =
                 [frame_write_buffers EXCEPT ![i] = Tail(@)]
       ELSE UNCHANGED <<video_files, video_writers, frame_write_buffers>>
    /\ writer_pc' = [writer_pc EXCEPT ![i] = "loop"]
    /\ UNCHANGED <<open_succeeds, running, frame_client_idx,
                   position_client_idx, frame_read_success, current_frame,
                   source_positions, position_file, rec_pc, frames_delivered,
                   positions_delivered, tick_interrupted, record_resumed,
                   recRest>>

\* writeFramesToFileFromBuffer: if read_available, initializeWriter unless
\* the video writer isOpened, write front and pop; video_files holds the
\* frames handed to write
Writer_write(i) ==
    /\ writer_pc[i] = "check"
    /\ IF frame_write_buffers[i] # << >>
       THEN /\ IF ~video_writers[i].opened
               THEN video_writers' = initializeWriter(i, i)
               ELSE UNCHANGED video_writers
            /\ video_files' =
                 [video_files EXCEPT ![i] = Append(@, Head(frame_write_buffers[i]))]
            /\ frame_write_buffers' =
                 [frame_write_buffers EXCEPT ![i] = Tail(@)]
       ELSE UNCHANGED <<video_files, video_writers, frame_write_buffers>>
    /\ writer_pc' = [writer_pc EXCEPT ![i] = "loop"]
    /\ UNCHANGED <<open_succeeds, running, frame_client_idx,
                   position_client_idx, frame_read_success, current_frame,
                   source_positions, position_file, rec_pc, frames_delivered,
                   positions_delivered, tick_interrupted, record_resumed,
                   recRest>>

\* Recorder::~Recorder: running = false
Recorder_stop ==
    /\ rec_pc = "idle"
    /\ running' = FALSE
    /\ rec_pc' = "joining"
    /\ UNCHANGED <<frame_client_idx, position_client_idx, frame_read_success,
                   current_frame, source_positions, frame_write_buffers,
                   video_files, video_writers, open_succeeds, position_file,
                   writer_pc, frames_delivered, positions_delivered,
                   tick_interrupted, record_resumed, recRest>>

\* Recorder::~Recorder: every writer thread joined; the files are closed
Recorder_join ==
    /\ rec_pc = "joining"
    /\ \A i \in FrameSources : writer_pc[i] = "exited"
    /\ rec_pc' = "destroyed"
    /\ UNCHANGED <<running, frame_client_idx, position_client_idx,
                   frame_read_success, current_frame, source_positions,
                   frame_write_buffers, video_files, video_writers,
                   open_succeeds, position_file, writer_pc, frames_delivered,
                   positions_delivered, tick_interrupted, record_resumed,
                   recRest>>

NextRecorder ==
    \/ writeStreams_call
    \/ \E ok \in BOOLEAN : writeStreams_getSharedMat(ok)
    \/ writeStreams_push
    \/ \E ok \in BOOLEAN : writeStreams_getSharedObject(ok)
    \/ writeStreams_finish
    \/ \E i \in FrameSources : Writer_loop(i)
    \/ \E i \in FrameSources : Writer_wait_for(i)
    \/ \E i \in FrameSources : Writer_write(i)
    \/ Recorder_stop
    \/ Recorder_join

\* ------------------------------------- controlRecorder (RecordControl.cpp)
ctlRest == <<nodeVars, sinkVars, srcVars, serverVars, bridgeVars, recVars,
             decVars, dfVars, tpVars>>

Tokens == {"exit", "help", "start", "stop", "new", "rename", "bogus"}

RECURSIVE LinesUpTo(_)
LinesUpTo(n) ==
    IF n = 0 THEN {<< >>}
    ELSE LinesUpTo(n - 1) \cup
         {Append(l, tok) : l \in {x \in LinesUpTo(n - 1) : Len(x) = n - 1},
                           tok \in Tokens}

InitControlWith(lines, on) ==
    /\ in_lines = lines
    /\ in_pos = 1
    /\ in_eofbit = FALSE
    /\ in_failbit = FALSE
    /\ cmd = ""
    /\ ctl_pc = "loop"
    /\ record_on = on
    /\ record_on_initial = on
    /\ lines_read = << >>
    /\ out_last = << >>

InitControl ==
    \E lines \in LinesUpTo(MaxLines), on \in BOOLEAN :
        InitControlWith(lines, on)

\* cmd_map[cmd] (an absent key is inserted with the value 0)
cmd_map(c) ==
    CASE c = "exit" -> "e"
      [] c = "help" -> "h"
      [] c = "start" -> "s"
      [] c = "stop" -> "S"
      [] c = "new" -> "n"
      [] c = "rename" -> "r"
      [] OTHER -> "0"

\* std::getline(in, cmd): on a stream that is not good() it sets failbit and
\* leaves cmd alone; else it erases cmd and extracts one line, or, with no
\* input left, sets eofbit and failbit
getline ==
    IF in_eofbit \/ in_failbit
    THEN [cmd |-> cmd, pos |-> in_pos, eofbit |-> in_eofbit,
          failbit |-> TRUE, extracted |-> FALSE]
    ELSE IF in_pos <= Len(in_lines)
    THEN [cmd |-> in_lines[in_pos], pos |-> in_pos + 1, eofbit |-> FALSE,
          failbit |-> FALSE, extracted |-> TRUE]
    ELSE [cmd |-> "", pos |-> in_pos, eofbit |-> TRUE, failbit |-> TRUE,
          extracted |-> FALSE]

\* one iteration of the user control loop: getline, then the switch; the
\* default case calls in.clear() and in.ignore(max), whose delimiter is the
\* end of the stream
controlRecorder_iteration ==
    /\ ctl_pc = "loop"
    /\ LET got == getline
           key == cmd_map(got.cmd)
       IN  /\ cmd' = got.cmd
           /\ lines_read' = IF got.extracted
                            THEN Append(lines_read, got.cmd)
                            ELSE lines_read
           /\ ctl_pc' = IF key = "e" THEN "returned" ELSE "loop"
           /\ record_on' = CASE key = "s" -> TRUE
                             [] key = "S" -> FALSE
                             [] OTHER -> record_on
           /\ IF key \in {"e", "h", "s", "S"}
              THEN /\ in_pos' = got.pos
                   /\ in_eofbit' = got.eofbit
                   /\ in_failbit' = got.failbit
                   /\ out_last' = CASE key = "e" -> <<"Received exit signal.">>
                                    [] key = "h" -> <<"COMMANDS">>
                                    [] key = "s" -> <<"Recording ON.">>
                                    [] key = "S" -> <<"Recording OFF.">>
              ELSE /\ in_pos' = Len(in_lines) + 1
                   /\ in_eofbit' = TRUE
                   /\ in_failbit' = FALSE
                   /\ out_last' = <<"Invalid command", got.cmd>>
    /\ UNCHANGED <<in_lines, record_on_initial, ctlRest>>

NextControl == controlRecorder_iteration

\* ------------------------------- Decorator::connectToNodes (Decorator.cpp)
decOuter == <<nodeVars, sinkVars, srcVars, serverVars, bridgeVars, recVars,
              ctlVars, tpVars>>
decRest == <<decOuter, dec_holding, frame_sink_acked, dfCall>>

NoParam == 0

UpstreamNodes == 0 .. NumPositionNodes

InitDecoratorWith(bytes) ==
    /\ upstream_state = [n \in UpstreamNodes |-> "UNDEFINED"]
    /\ upstream_bytes = bytes
    /\ dec_pc = "frame_touch"
    /\ dec_pos_idx = 1
    /\ frame_source_ = "detached"
    /\ position_sources_ = [j \in PositionNodes |-> "detached"]
    /\ param_bytes = NoParam
    /\ frame_sink_bound = FALSE
    /\ frame_sink_bytes = NoParam
    /\ retrieve_calls = 0
    /\ dec_published = FALSE
    /\ upstream_count = [n \in UpstreamNodes |-> 0]
    /\ dec_last_seen = [n \in UpstreamNodes |-> 0]
    /\ dec_holding = {}
    /\ frame_sink_acked = TRUE
    /\ df_wait_result = "none"
    /\ df_end_seen = FALSE
    /\ df_waits = [n \in UpstreamNodes |-> 0]
    /\ df_posts = [n \in UpstreamNodes |-> 0]
    /\ df_sink_waits = 0
    /\ df_sink_posts = 0
    /\ df_result = "none"

InitDecorator == \E bytes \in 1 .. MaxBytes : InitDecoratorWith(bytes)

\* an upstream component binds its Sink (4.1)
Upstream_bind(n) ==
    /\ upstream_state[n] = "UNDEFINED"
    /\ upstream_state' = [upstream_state EXCEPT ![n] = "SINK_BOUND"]
    /\ UNCHANGED <<upstream_bytes, dec_pc, dec_pos_idx, frame_source_,
                   position_sources_, param_bytes, frame_sink_bound,
                   frame_sink_bytes, retrieve_calls, dec_published, decRest>>
    /\ UNCHANGED <<upstream_count, dec_last_seen>>

\* an upstream component publishes (4.2 step 1)
Upstream_post(n) ==
    /\ upstream_state[n] \in {"SINK_BOUND", "SOURCE_WAITING"}
    /\ upstream_state' = [upstream_state EXCEPT ![n] = "SOURCE_WAITING"]
    /\ UNCHANGED <<upstream_bytes, dec_pc, dec_pos_idx, frame_source_,
                   position_sources_, param_bytes, frame_sink_bound,
                   frame_sink_bytes, retrieve_calls, dec_published, decRest>>
    /\ upstream_count[n] < MaxUpstreamSamples
    /\ upstream_count' = [upstream_count EXCEPT ![n] = @ + 1]
    /\ UNCHANGED dec_last_seen

\* frame_source_.touch(frame_source_address_): NotFound, retried, while no
\* region exists (4.3)
connectToNodes_frame_touch ==
    /\ dec_pc = "frame_touch"
    /\ upstream_state[0] \in {"SINK_BOUND", "SOURCE_WAITING"}
    /\ frame_source_' = "touched"
    /\ dec_pc' = "frame_connect"
    /\ UNCHANGED <<upstream_state, upstream_bytes, dec_pos_idx,
                   position_sources_, param_bytes, frame_sink_bound,
                   frame_sink_bytes, retrieve_calls, dec_published, decRest>>
    /\ dec_last_seen' = [dec_last_seen EXCEPT ![0] = upstream_count[0]]
    /\ UNCHANGED upstream_count

\* frame_source_.connect(): blocks until the Sink has bound (4.1)
connectToNodes_frame_connect ==
    /\ dec_pc = "frame_connect"
    /\ upstream_state[0] \in {"SINK_BOUND", "SOURCE_WAITING"}
    /\ frame_source_' = "connected"
    /\ dec_pc' = "parameters"
    /\ UNCHANGED <<upstream_state, upstream_bytes, dec_pos_idx,
                   position_sources_, param_bytes, frame_sink_bound,
                   frame_sink_bytes, retrieve_calls, dec_published, decRest>>
    /\ UNCHANGED <<upstream_count, dec_last_seen>>

connectToNodes_parameters_SkipPositions ==
    /\ dec_pc = "parameters"
    /\ param_bytes' = upstream_bytes
    /\ dec_pc' = "bind"
    /\ UNCHANGED <<upstream_state, upstream_bytes, dec_pos_idx,
                   frame_source_, position_sources_, frame_sink_bound,
                   frame_sink_bytes, retrieve_calls, dec_published, decRest>>
    /\ UNCHANGED <<upstream_count, dec_last_seen>>

\* param = frame_source_.parameters(); then the touch loop begins
connectToNodes_parameters ==
    /\ dec_pc = "parameters"
    /\ param_bytes' = upstream_bytes
    /\ dec_pos_idx' = 1
    /\ dec_pc' = IF NumPositionNodes = 0 THEN "bind" ELSE "pos_touch"
    /\ UNCHANGED <<upstream_state, upstream_bytes, frame_source_,
                   position_sources_, frame_sink_bound, frame_sink_bytes,
                   retrieve_calls, dec_published, decRest>>
    /\ UNCHANGED <<upstream_count, dec_last_seen>>

\* for (auto &pos : position_sources_) touch
connectToNodes_position_touch ==
    /\ dec_pc = "pos_touch"
    /\ upstream_state[dec_pos_idx] \in {"SINK_BOUND", "SOURCE_WAITING"}
    /\ position_sources_' = [position_sources_ EXCEPT ![dec_pos_idx] = "touched"]
    /\ IF dec_pos_idx < NumPositionNodes
       THEN dec_pos_idx' = dec_pos_idx + 1 /\ UNCHANGED dec_pc
       ELSE dec_pos_idx' = 1 /\ dec_pc' = "pos_connect"
    /\ UNCHANGED <<upstream_state, upstream_bytes, frame_source_,
                   param_bytes, frame_sink_bound, frame_sink_bytes,
                   retrieve_calls, dec_published, decRest>>
    /\ dec_last_seen' =
         [dec_last_seen EXCEPT ![dec_pos_idx] = upstream_count[dec_pos_idx]]
    /\ UNCHANGED upstream_count

\* for (auto &pos : position_sources_) connect
connectToNodes_position_connect ==
    /\ dec_pc = "pos_connect"
    /\ upstream_state[dec_pos_idx] \in {"SINK_BOUND", "SOURCE_WAITING"}
    /\ position_sources_' = [position_sources_ EXCEPT ![dec_pos_idx] = "connected"]
    /\ IF dec_pos_idx < NumPositionNodes
       THEN dec_pos_idx' = dec_pos_idx + 1 /\ UNCHANGED dec_pc
       ELSE dec_pos_idx' = 1 /\ dec_pc' = "bind"
    /\ UNCHANGED <<upstream_state, upstream_bytes, frame_source_,
                   param_bytes, frame_sink_bound, frame_sink_bytes,
                   retrieve_calls, dec_published, decRest>>
    /\ UNCHANGED <<upstream_count, dec_last_seen>>

\* frame_sink_.bind(frame_sink_address_, param.bytes)
connectToNodes_bind ==
    /\ dec_pc = "bind"
    /\ frame_sink_bound' = TRUE
    /\ frame_sink_bytes' = param_bytes
    /\ dec_pc' = "retrieve"
    /\ UNCHANGED <<upstream_state, upstream_bytes, dec_pos_idx,
                   frame_source_, position_sources_, param_bytes,
                   retrieve_calls, dec_published, decRest>>
    /\ UNCHANGED <<upstream_count, dec_last_seen>>

\* shared_frame_ = frame_sink_.retrieve(param.rows, param.cols, param.type)
connectToNodes_retrieve ==
    /\ dec_pc = "retrieve"
    /\ retrieve_calls' = retrieve_calls + 1
    /\ dec_pc' = "done"
    /\ UNCHANGED <<upstream_state, upstream_bytes, dec_pos_idx,
                   frame_source_, position_sources_, param_bytes,
                   frame_sink_bound, frame_sink_bytes, dec_published,
                   decRest>>
    /\ UNCHANGED <<upstream_count, dec_last_seen>>

\* an upstream component drops its Sink: end of stream (4.2)
Upstream_end(n) ==
    /\ upstream_state[n] \in {"SINK_BOUND", "SOURCE_WAITING"}
    /\ upstream_state' = [upstream_state EXCEPT ![n] = "END"]
    /\ UNCHANGED <<upstream_bytes, dec_pc, dec_pos_idx, frame_source_,
                   position_sources_, param_bytes, frame_sink_bound,
                   frame_sink_bytes, retrieve_calls, dec_published,
                   upstream_count, dec_last_seen, decRest>>

\* the readers of frame_sink_'s Node post for the published frame (4.2)
Downstream_post ==
    /\ ~frame_sink_acked
    /\ frame_sink_acked' = TRUE
    /\ UNCHANGED <<decVars, upstream_count, dec_last_seen, dec_holding,
                   dfCall, decOuter>>

\* --------------------------------- Decorator::decorateFrame (Decorator.cpp)
\* what connectToNodes set up and decorateFrame leaves alone
dfFixed == <<upstream_state, upstream_bytes, frame_source_, position_sources_,
             param_bytes, frame_sink_bound, frame_sink_bytes, retrieve_calls,
             upstream_count, decOuter>>

\* Source::wait on upstream Node n (4.2 step 2, 4.3): blocks while the
\* Source's last_seen_count equals sample_count and the Node is not END
Source_wait_ready(n) ==
    upstream_state[n] = "END" \/ dec_last_seen[n] # upstream_count[n]

\* the process loop calls decorateFrame
decorateFrame_call ==
    /\ dec_pc = "done"
    /\ dec_pc' = "df_frame_wait"
    /\ df_wait_result' = "none"
    /\ df_end_seen' = FALSE
    /\ df_waits' = [n \in UpstreamNodes |-> 0]
    /\ df_posts' = [n \in UpstreamNodes |-> 0]
    /\ df_sink_waits' = 0
    /\ df_sink_posts' = 0
    /\ df_result' = "none"
    /\ UNCHANGED <<dec_pos_idx, dec_published, dec_last_seen, dec_holding,
                   frame_sink_acked, dfFixed>>

\* the wait of the Source on upstream Node n returns END or a sample
decorateFrame_wait(n, next_pc) ==
    /\ Source_wait_ready(n)
    /\ IF upstream_state[n] = "END"
       THEN /\ df_wait_result' = "END"
            /\ df_end_seen' = TRUE
            /\ UNCHANGED <<dec_last_seen, dec_holding, df_waits>>
       ELSE /\ df_wait_result' = "OK"
            /\ dec_last_seen' = [dec_last_seen EXCEPT ![n] = upstream_count[n]]
            /\ dec_holding' = dec_holding \cup {n}
            /\ df_waits' = [df_waits EXCEPT ![n] = @ + 1]
            /\ UNCHANGED df_end_seen
    /\ dec_pc' = next_pc
    /\ UNCHANGED <<dec_pos_idx, dec_published, frame_sink_acked, df_posts,
                   df_sink_waits, df_sink_posts, df_result, dfFixed>>

\* if (wait() == oat::NodeState::END) return true;
decorateFrame_test_IgnoreEND(next_pc) ==
    /\ dec_pc' = next_pc
    /\ UNCHANGED df_result
    /\ UNCHANGED <<dec_pos_idx, dec_published, dec_last_seen, dec_holding,
                   frame_sink_acked, df_wait_result, df_end_seen, df_waits,
                   df_posts, df_sink_waits, df_sink_posts, dfFixed>>

decorateFrame_test(next_pc) ==
    /\ IF df_wait_result = "END"
       THEN dec_pc' = "ended" /\ df_result' = "END"
       ELSE dec_pc' = next_pc /\ UNCHANGED df_result
    /\ UNCHANGED <<dec_pos_idx, dec_published, dec_last_seen, dec_holding,
                   frame_sink_acked, df_wait_result, df_end_seen, df_waits,
                   df_posts, df_sink_waits, df_sink_posts, dfFixed>>

\* copyTo / clone: the payload is copied out of the shared region
decorateFrame_copy(next_pc) ==
    /\ dec_pc' = next_pc
    /\ UNCHANGED <<dec_pos_idx, dec_published, dec_last_seen, dec_holding,
                   frame_sink_acked, dfCall, dfFixed>>

decorateFrame_post_Skipped(n, next_pc, next_idx) ==
    /\ dec_pc' = next_pc
    /\ dec_pos_idx' = next_idx
    /\ UNCHANGED <<dec_published, dec_last_seen, dec_holding,
                   frame_sink_acked, dfCall, dfFixed>>

\* the post of the Source on upstream Node n
decorateFrame_post(n, next_pc, next_idx) ==
    /\ dec_holding' = dec_holding \ {n}
    /\ df_posts' = [df_posts EXCEPT ![n] = @ + 1]
    /\ dec_pc' = next_pc
    /\ dec_pos_idx' = next_idx
    /\ UNCHANGED <<dec_published, dec_last_seen, frame_sink_acked,
                   df_wait_result, df_end_seen, df_waits, df_sink_waits,
                   df_sink_posts, df_result, dfFixed>>

\* 1. Get frame: frame_source_.wait()
decorateFrame_frame_wait ==
    /\ dec_pc = "df_frame_wait"
    /\ decorateFrame_wait(0, "df_frame_test")

decorateFrame_frame_test ==
    /\ dec_pc = "df_frame_test"
    /\ decorateFrame_test("df_frame_copy")

\* frame_source_.copyTo(internal_frame_)
decorateFrame_frame_copy ==
    /\ dec_pc = "df_frame_copy"
    /\ decorateFrame_copy("df_frame_post")

\* frame_source_.post(); then the position loop begins
decorateFrame_frame_post ==
    /\ dec_pc = "df_frame_post"
    /\ decorateFrame_post(0, IF NumPositionNodes = 0 THEN "df_sink_wait"
                                                   ELSE "df_pos_wait", 1)

\* 2. Get positions: std::get<2>(pos)->wait()
decorateFrame_position_wait ==
    /\ dec_pc = "df_pos_wait"
    /\ decorateFrame_wait(dec_pos_idx, "df_pos_test")

decorateFrame_position_test ==
    /\ dec_pc = "df_pos_test"
    /\ decorateFrame_test("df_pos_clone")

\* std::get<1>(pos) = std::get<2>(pos)->clone()
decorateFrame_position_clone ==
    /\ dec_pc = "df_pos_clone"
    /\ decorateFrame_copy("df_pos_post")

\* std::get<2>(pos)->post(); the next position, or drawSymbols()
decorateFrame_position_post ==
    /\ dec_pc = "df_pos_post"
    /\ IF dec_pos_idx < NumPositionNodes
       THEN decorateFrame_post(dec_pos_idx, "df_pos_wait", dec_pos_idx + 1)
       ELSE decorateFrame_post(dec_pos_idx, "df_sink_wait", 1)

\* frame_sink_.wait(): blocks until the readers acknowledged (4.2 step 3)
decorateFrame_sink_wait ==
    /\ dec_pc = "df_sink_wait"
    /\ frame_sink_acked
    /\ df_sink_waits' = df_sink_waits + 1
    /\ dec_pc' = "df_sink_copy"
    /\ UNCHANGED <<dec_pos_idx, dec_published, dec_last_seen, dec_holding,
                   frame_sink_acked, df_wait_result, df_end_seen, df_waits,
                   df_posts, df_sink_posts, df_result, dfFixed>>

\* internal_frame_.copyTo(shared_frame_)
decorateFrame_sink_copy ==
    /\ dec_pc = "df_sink_copy"
    /\ decorateFrame_copy("df_sink_post")

\* frame_sink_.post()
decorateFrame_publish ==
    /\ dec_pc = "df_sink_post"
    /\ dec_published' = TRUE
    /\ df_sink_posts' = df_sink_posts + 1
    /\ frame_sink_acked' = FALSE
    /\ dec_pc' = "df_return"
    /\ UNCHANGED <<dec_pos_idx, dec_last_seen, dec_holding, df_wait_result,
                   df_end_seen, df_waits, df_posts, df_sink_waits, df_result,
                   dfFixed>>

\* return false
decorateFrame_return ==
    /\ dec_pc = "df_return"
    /\ df_result' = "OK"
    /\ dec_pc' = "done"
    /\ UNCHANGED <<dec_pos_idx, dec_published, dec_last_seen, dec_holding,
                   frame_sink_acked, df_wait_result, df_end_seen, df_waits,
                   df_posts, df_sink_waits, df_sink_posts, dfFixed>>

NextDecorator ==
    \/ \E n \in UpstreamNodes : Upstream_bind(n)
    \/ \E n \in UpstreamNodes : Upstream_post(n)
    \/ connectToNodes_frame_touch
    \/ connectToNodes_frame_connect
    \/ connectToNodes_parameters
    \/ connectToNodes_position_touch
    \/ connectToNodes_position_connect
    \/ connectToNodes_bind
    \/ connectToNodes_retrieve
    \/ \E n \in UpstreamNodes : Upstream_end(n)
    \/ Downstream_post
    \/ decorateFrame_call
    \/ decorateFrame_frame_wait
    \/ decorateFrame_frame_test
    \/ decorateFrame_frame_copy
    \/ decorateFrame_frame_post
    \/ decorateFrame_position_wait
    \/ decorateFrame_position_test
    \/ decorateFrame_position_clone
    \/ decorateFrame_position_post
    \/ decorateFrame_sink_wait
    \/ decorateFrame_sink_copy
    \/ decorateFrame_publish
    \/ decorateFrame_return

\* ----------------------------------------- TestPosition (TestPosition.h)
tpRest == <<nodeVars, sinkVars, srcVars, serverVars, bridgeVars, recVars,
            ctlVars, decVars, dfVars>>

\* the positions generatePosition may return
Positions == 1 .. NumPositions

\* the process loop stops calling once the counter has gone round
MaxCalls == 2 ^ SampleBits + 1

\* TestPosition::TestPosition: sample(0)
InitTestPosition ==
    /\ sample = 0
    /\ position_sink = << >>
    /\ process_result = "none"

\* TestPosition::process: pushObject(generatePosition(), sample), ++sample
\* on the unsigned counter, return false
TestPosition_process(position) ==
    /\ Len(position_sink) < MaxCalls
    /\ position_sink' =
         Append(position_sink, [position |-> position, sample |-> sample])
    /\ sample' = (sample + 1) % (2 ^ SampleBits)
    /\ process_result' = "false"
    /\ UNCHANGED tpRest

NextTestPosition == \E position \in Positions : TestPosition_process(position)

\* ---------------------------------------------------------- specifications
InitTools ==
    /\ InitRecorderWith(TRUE) /\ InitControlWith(<< >>, FALSE)
    /\ InitDecoratorWith(1) /\ InitTestPosition

Init == InitNode /\ InitServer /\ InitBridgeWith("BLOCK") /\ InitTools
Next == NextNode
Spec == Init /\ [][Next]_vars
SpecServer == Init /\ [][NextServer]_vars
BridgeInit == InitNode /\ InitServer /\ InitBridge /\ InitTools
RecorderInit ==
    /\ InitNode /\ InitServer /\ InitBridgeWith("BLOCK") /\ InitRecorder
    /\ InitControlWith(<< >>, FALSE) /\ InitDecoratorWith(1) /\ InitTestPosition
SpecRecorder == RecorderInit /\ [][NextRecorder]_vars
SpecTestPosition == Init /\ [][NextTestPosition]_vars

\* every writer thread is an OS thread of its own and its timed wait returns
\* after 10 ms at the latest; the destructor's join returns once the threads
\* have exited
FairRecorder ==
    /\ RecorderInit /\ [][NextRecorder]_vars
    /\ \A i \in FrameSources : WF_vars(Writer_loop(i))
    /\ \A i \in FrameSources : WF_vars(Writer_wait_for(i))
    /\ \A i \in FrameSources : WF_vars(Writer_write(i))
    /\ WF_vars(Recorder_join)

ControlInit ==
    /\ InitNode /\ InitServer /\ InitBridgeWith("BLOCK") /\ InitRecorderWith(TRUE)
    /\ InitControl /\ InitDecoratorWith(1) /\ InitTestPosition
SpecControl == ControlInit /\ [][NextControl]_vars

DecoratorInit ==
    /\ InitNode /\ InitServer /\ InitBridgeWith("BLOCK") /\ InitRecorderWith(TRUE)
    /\ InitControlWith(<< >>, FALSE) /\ InitDecorator /\ InitTestPosition
SpecDecorator == DecoratorInit /\ [][NextDecorator]_vars
SpecBridge == BridgeInit /\ [][NextBridge]_vars

\* the sink-side thread is an OS thread of its own: each of its steps is
\* taken when it stays possible
FairBridge ==
    /\ BridgeInit
    /\ [][NextBridge]_vars
    /\ WF_vars(PumpWake)
    /\ WF_vars(PumpDrain)
    /\ WF_vars(PumpSinkWait)
    /\ WF_vars(PumpSinkWaitStopped)
    /\ WF_vars(PumpCopy)
    /\ WF_vars(PumpPost)
    /\ WF_vars(PumpPop)

\* the threads of a component keep running: a wait whose condition holds
\* returns, and a copy or a post that is due is made
FairSpec ==
    /\ Init /\ [][Next]_vars
    /\ \A s \in Sources : WF_vars(SourceWait(s))
    /\ \A s \in Sources : WF_vars(SourceCopy(s))
    /\ \A s \in Sources : WF_vars(SourcePost(s))

\* ------------------------------------------------------------------ claims
\* a Source that has been handed the current sample, or is yet to be handed
\* it, and has not posted for it
Owes(s) ==
    /\ src_pc[s] \in {"touched", "connected", "holding", "copied"}
    /\ \/ src_pc[s] \in {"holding", "copied"}
       \/ last_seen_count[s] # sample_count

\* C1: a Source attached before the first publish copies out the sample
\* indices 0, 1, 2, ... in that order, with no index skipped and none seen
\* twice, and while it is attached it is never more than the current sample
\* behind the Sink.
C1_InOrderNoGapsNoDuplicates ==
    \A s \in Sources :
        (src_pc[s] # "detached" /\ attach_count[s] = 0) =>
            /\ \A i \in 1 .. Len(observed[s]) : observed[s][i] = i - 1
            /\ Attached(s) => Len(observed[s]) >= sample_count - 1

C1_Witness ==
    \A s \in Sources :
        /\ attach_count[s] = 0
        /\ observed[s] = [i \in 1 .. MaxSamples |-> i - 1]

\* C2: the Sink's write section and a Source's read section are never
\* active together, and the Sink is in its write section only while
\* acknowledged_reads = source_ref_count.
C2_WriteOnlyWhenAllAcknowledged ==
    sink_pc \in {"writing", "written"} =>
        /\ \A s \in Sources : src_pc[s] \notin {"holding", "copied"}
        /\ acknowledged_reads = source_ref_count

C6_LateAttachJoinsAtNextSample ==
    \A s \in Sources :
        observed[s] # << >> => observed[s][1] >= attach_count[s]

C6_Witness ==
    \E s \in Sources : attach_count[s] = 1 /\ observed[s] = <<1>>

\* C7: a Source attaching mid-stream preserves the writer's wakeup
\* condition: when the Sink is at its wait, every Source has posted each
\* sample it was handed and none is yet to be handed the current one, the
\* Sink's wait is not blocked.
C7_AttachPreservesWakeup ==
    (/\ sink_pc = "bound"
     /\ state # "END"
     /\ sample_count > 0
     /\ \A s \in Sources : ~Owes(s)) =>
        ~(acknowledged_reads < source_ref_count)

\* C8: after a Source was dropped, whether or not it had posted for the
\* current sample, the Sink's wait is not blocked once every remaining
\* Source has posted for the current sample.
C8_DetachPreservesWakeup ==
    (/\ sink_pc = "bound"
     /\ state # "END"
     /\ \E s \in Sources : src_pc[s] = "dropped"
     /\ \A s \in Sources :
           src_pc[s] \in {"touched", "connected", "holding", "copied"} =>
               /\ src_pc[s] = "connected"
               /\ posted[s]
               /\ last_seen_count[s] = sample_count) =>
        /\ ~(acknowledged_reads < source_ref_count)
        /\ sample_count < MaxSamples => ENABLED SinkWait

\* a Source was dropped inside its read section, the other one posted, and
\* the Sink's wait has returned
C8_Witness ==
    \E s, r \in Sources :
        /\ src_pc[s] = "dropped"
        /\ ~posted[s]
        /\ attach_count[s] < sample_count
        /\ last_seen_count[s] = sample_count
        /\ src_pc[r] = "connected"
        /\ posted[r]
        /\ last_seen_count[r] = sample_count
        /\ sink_pc = "writing"

\* C9: with no Source attached the Sink's wait is not blocked, and every
\* post advances sample_count by exactly one.
C9_NoReadersNeverBlocks ==
    /\ []((sink_pc = "bound" /\ source_ref_count = 0
                             /\ sample_count < MaxSamples)
            => ENABLED SinkWait)
    /\ [][(sink_pc = "written" /\ sink_pc' = "bound")
            => sample_count' = sample_count + 1]_vars

C9_Witness ==
    /\ sample_count = MaxSamples
    /\ \A s \in Sources : src_pc[s] = "detached"

\* C4: while no Sink has gone away or failed, at most one Sink is bound to the address,
\* and the bound Sink's region is still the one the name denotes, as is the
\* region of every client attached to it.
C4_OneSinkPerAddress ==
    (ub_access = {} /\ \A s \in Servers : srv_status[s] = "alive") =>
        /\ Cardinality({s \in Servers : shared_object_created[s]}) <= 1
        /\ \A s \in Servers :
              shared_object_created[s] => shmem_named = shared_object[s]
        /\ \A c \in Clients :
              client_region[c] # NoRegion => shmem_named = client_region[c]

\* the entries of the queue not yet published: all of it, but for the front
\* entry between the sink-side thread's post and its pop
Unpublished ==
    IF pc_out = "pop" THEN Tail(queue) ELSE queue

InHand == IF pc_in = "push" THEN <<hand>> ELSE << >>

\* C10: under BLOCK no sample read from the inbound Source is dropped: at
\* every moment the indices read are the indices published on the outbound
\* Sink, followed by the queued ones and the one being pushed, so the
\* published sequence is a prefix of the sequence read.
C10_BlockKeepsEverySample ==
    policy = "BLOCK" =>
        /\ dropped = << >>
        /\ Len(out_published) <= Len(in_read)
        /\ out_published = SubSeq(in_read, 1, Len(out_published))
        /\ in_read = out_published \o Unpublished \o InHand

\* the source-side thread is held at a full queue, after publications
C10_Witness ==
    /\ policy = "BLOCK"
    /\ pc_in = "push"
    /\ Len(queue) = QueueCapacity
    /\ out_published # << >>
    /\ in_next = MaxInput

RECURSIVE IsSubsequence(_, _)
IsSubsequence(a, b) ==
    IF a = << >> THEN TRUE
    ELSE IF b = << >> THEN FALSE
    ELSE IF Head(a) = Head(b) THEN IsSubsequence(Tail(a), Tail(b))
    ELSE IsSubsequence(a, Tail(b))

StrictlyIncreasing(a) ==
    \A i \in 1 .. Len(a) - 1 : a[i] < a[i + 1]

\* C11: under DROP_NEWEST the indices published on the outbound Sink are a
\* strictly increasing subsequence of the indices read from the inbound
\* Source, a sample is dropped only at a full queue, every sample read is
\* either dropped, published, queued or in hand, and the queue never holds
\* more than its capacity.
C11_DropNewestSubsequence ==
    /\ [](policy = "DROP_NEWEST" =>
            /\ Len(queue) <= QueueCapacity
            /\ StrictlyIncreasing(out_published)
            /\ IsSubsequence(out_published, in_read)
            /\ IsSubsequence(out_published \o Unpublished \o InHand, in_read)
            /\ IsSubsequence(dropped, in_read)
            /\ Len(in_read) = Len(out_published) + Len(Unpublished)
                                + Len(InHand) + Len(dropped))
    /\ [][(policy = "DROP_NEWEST" /\ dropped' # dropped)
            => Len(queue) = QueueCapacity]_vars

\* a sample was dropped at the full queue and a later one was published
C11_Witness ==
    /\ policy = "DROP_NEWEST"
    /\ dropped # << >>
    /\ \E i \in 1 .. Len(out_published) : out_published[i] > dropped[1]

\* C12: once sink_running is false the sink-side thread eventually exits;
\* the outbound Node goes END only after that thread has exited, and nothing
\* is published on the outbound Node once it is END.
C12_BridgeShutdown ==
    /\ (~sink_running) ~> (pc_out = "exited")
    /\ [](out_state = "END" => pc_out = "exited")
    /\ [][out_state = "END" =>
            (out_state' = "END" /\ out_published' = out_published)]_vars

\* the bridge was stopped after publications and its outbound Node is END
C12_Witness ==
    /\ out_state = "END"
    /\ pc_out = "exited"
    /\ ~sink_running
    /\ out_published # << >>

\* the samples 1 .. n in the order of delivery
FirstSamples(n) == [k \in 1 .. n |-> k]

\* the sample count of the source that delivered least: the ticks for which
\* every frame source and every position source delivered its sample
TicksProcessed ==
    CHOOSE m \in 0 .. MaxTicks + 1 :
        /\ \A i \in FrameSources : m <= frames_delivered[i]
        /\ \A j \in PositionSources : m <= positions_delivered[j]
        /\ \/ \E i \in FrameSources : m = frames_delivered[i]
           \/ \E j \in PositionSources : m = positions_delivered[j]

\* C13: whatever reads fail and whenever writeStreams is resumed, the
\* position array holds one record per tick processed, in tick order: a
\* source has delivered one sample more than there are records exactly when
\* the tick in progress has passed it, and between writeStreams calls the
\* number of records is the number of ticks every source has delivered.
C13_OneRecordPerTick ==
    /\ \A i \in FrameSources :
          frames_delivered[i] = Len(position_file) +
              (IF i <= frame_client_idx
                  \/ (rec_pc = "push" /\ i = frame_client_idx + 1)
               THEN 1 ELSE 0)
    /\ \A j \in PositionSources :
          positions_delivered[j] = Len(position_file) +
              (IF j <= position_client_idx THEN 1 ELSE 0)
    /\ \A n \in 1 .. Len(position_file) :
          /\ position_file[n].sample = n
          /\ \A j \in PositionSources : position_file[n].positions[j] = n
    /\ rec_pc \in {"idle", "joining", "destroyed"}
          => Len(position_file) = TicksProcessed

\* every tick was recorded and the last one was interrupted by a failed read
\* and resumed by a later writeStreams call
C13_Witness ==
    /\ rec_pc = "idle"
    /\ Len(position_file) = MaxTicks
    /\ record_resumed

\* C14: at shutdown, with no tick in progress, every frame stream's file
\* followed by what is left in its queue is the frames of the ticks
\* processed, in the order they were pushed.
C14_FramesWrittenPlusQueued ==
    (rec_pc = "destroyed" /\ frame_client_idx = 0) =>
        \A i \in FrameSources :
            video_files[i] \o frame_write_buffers[i]
                = FirstSamples(Len(position_file))

\* C15: while the queue of the current frame stream is full the coordinator
\* stays at that queue's push: no step moves it on to the next source.
C15_CoordinatorStallsOnFullQueue ==
    [][(/\ rec_pc = "push"
        /\ Len(frame_write_buffers[frame_client_idx + 1]) = FrameWriteBufferSize)
       => (rec_pc' = "push" /\ frame_client_idx' = frame_client_idx)]_vars

\* C16: a writer thread that has exited saw running == false and left its
\* queue empty.
C16_WriterExitsOnlyWhenDrained ==
    \A i \in FrameSources :
        writer_pc[i] = "exited" =>
            (~running /\ frame_write_buffers[i] = << >>)

\* the value the most recent start or stop among the lines gives record_on
RECURSIVE MostRecentSetting(_, _)
MostRecentSetting(lines, initial) ==
    IF lines = << >> THEN initial
    ELSE LET last == lines[Len(lines)]
         IN  IF last = "start" THEN TRUE
             ELSE IF last = "stop" THEN FALSE
             ELSE MostRecentSetting(SubSeq(lines, 1, Len(lines) - 1), initial)

ConsumedLines == SubSeq(in_lines, 1, in_pos - 1)

OnlyKnownOrBogus == \A i \in 1 .. Len(in_lines) : in_lines[i] \notin {"new", "rename"}

\* C17: controlRecorder returns only after reading exit, and once a stream
\* that holds an exit line is used up the loop has returned.
C17_ExitStopsTheLoop ==
    /\ ctl_pc = "returned" => cmd = "exit"
    /\ (/\ OnlyKnownOrBogus
        /\ \E i \in 1 .. Len(in_lines) : in_lines[i] = "exit"
        /\ in_pos > Len(in_lines))
       => ctl_pc = "returned"

\* C18: an unknown command costs no more input than its own line and its
\* token is reported: every line taken off the stream was extracted by
\* getline and executed.
C18_UnknownDiscardsOneLine ==
    OnlyKnownOrBogus =>
        /\ lines_read = ConsumedLines
        /\ (out_last # << >> /\ out_last[1] = "Invalid command")
              => out_last[2] = cmd

\* C19: record_on is what the most recent start or stop among the commands
\* taken off the stream set it to, and what it was at the call if there was
\* none.
C19_RecordOnFollowsStartStop ==
    OnlyKnownOrBogus =>
        record_on = MostRecentSetting(ConsumedLines, record_on_initial)

\* C20: the Sink is bound, and publishes, only with the frame Source and
\* every position Source touched and connected, with the payload size the
\* frame Source reported; retrieve is called once, after bind.
C20_SourcesBeforeSink ==
    /\ (frame_sink_bound \/ dec_published) =>
          /\ frame_source_ = "connected"
          /\ \A j \in PositionNodes : position_sources_[j] = "connected"
    /\ frame_sink_bound => frame_sink_bytes = upstream_bytes
    /\ dec_published => frame_sink_bound
    /\ retrieve_calls <= 1
    /\ retrieve_calls = 1 => frame_sink_bound
    /\ (\E j \in PositionNodes : position_sources_[j] = "connected")
          => \A j \in PositionNodes : position_sources_[j] # "detached"

\* the component has connected everything, bound, retrieved and published
C20_Witness ==
    /\ dec_published
    /\ frame_sink_bound
    /\ retrieve_calls = 1
    /\ frame_sink_bytes = MaxBytes

InDecorateFrame ==
    dec_pc \in {"df_frame_wait", "df_frame_test", "df_frame_copy",
                "df_frame_post", "df_pos_wait", "df_pos_test", "df_pos_clone",
                "df_pos_post", "df_sink_wait", "df_sink_copy", "df_sink_post",
                "df_return"}

\* C21: decorateFrame returns END exactly when a Source wait of that call
\* returned END, and then it has made no sink wait and no sink post; a call
\* that returns otherwise has made exactly one sink wait and one sink post.
\* Within a call nothing is published once a wait has returned END.
C21_EndExactlyOnSourceEnd ==
    /\ df_result = "END" =>
          (df_end_seen /\ df_sink_waits = 0 /\ df_sink_posts = 0)
    /\ df_result = "OK" =>
          (~df_end_seen /\ df_sink_waits = 1 /\ df_sink_posts = 1)
    /\ df_end_seen => (df_sink_waits = 0 /\ df_sink_posts = 0)
    /\ (df_end_seen /\ ~InDecorateFrame) => df_result = "END"

\* a call returned END from a position Source, after the frame Source had
\* given it a sample
C21_Witness ==
    /\ df_result = "END"
    /\ df_end_seen
    /\ df_waits[0] = 1
    /\ df_posts[0] = 1

\* C30: a Source is held only from its wait to its post, one at a time; no
\* Source is held while any endpoint is waited on, in the sink's section or
\* after a return; a Source has posted as often as it was given a sample
\* unless it is the one held, and after a call that did not return END
\* every Source was given one sample and posted once.
C30_OneReadSectionAtATime ==
    /\ Cardinality(dec_holding) <= 1
    /\ dec_pc \in {"df_frame_wait", "df_pos_wait", "df_sink_wait",
                   "df_sink_copy", "df_sink_post", "df_return", "done",
                   "ended"}
          => dec_holding = {}
    /\ \A n \in UpstreamNodes :
          df_waits[n] = df_posts[n] + (IF n \in dec_holding THEN 1 ELSE 0)
    /\ df_result = "OK" =>
          \A n \in UpstreamNodes : df_waits[n] = 1 /\ df_posts[n] = 1

\* the component is in frame_sink_.wait(), every Source given a sample and
\* posted
C30_Witness ==
    /\ dec_pc = "df_sink_wait"
    /\ \A n \in UpstreamNodes : df_waits[n] = 1 /\ df_posts[n] = 1


\* C22: in every reachable state of a Node, under any interleaving of
\* sink.post, source.post, touch and drop, acknowledged_reads stays within
\* 0 .. source_ref_count and source_ref_count is the number of Sources
\* currently attached
C22_AcknowledgedWithinRefCount ==
    /\ 0 <= acknowledged_reads
    /\ acknowledged_reads <= source_ref_count
    /\ source_ref_count = Cardinality({s \in Sources : Attached(s)})

\* two Sources attached, both have posted for the current sample
C22_Witness ==
    /\ source_ref_count = 2
    /\ acknowledged_reads = 2
    /\ sample_count > 0

\* C23: sample_count increases by exactly one on every sink.post() and is
\* changed by no other operation; it never decreases
C23_SampleCountStepsOnPost ==
    [][/\ sample_count' # sample_count => (SinkPost /\ sample_count' = sample_count + 1)
       /\ SinkPost => sample_count' = sample_count + 1]_vars

\* a second sample has been published with a Source attached
C23_Witness ==
    /\ sample_count = 2
    /\ source_ref_count > 0


\* C24: when a frame Source's read fails during a tick, writeStreams leaves
\* the tick at once: in that call it waits on no further Source, neither a
\* frame Source nor a position Source, and writes no position record.
\* (In the position loop frame_read_success is false exactly when a frame
\* read of this call failed.)
C24_FrameEndLeavesTick ==
    [][(rec_pc = "positions" /\ ~frame_read_success)
       => /\ frames_delivered' = frames_delivered
          /\ positions_delivered' = positions_delivered
          /\ position_file' = position_file]_vars

\* C25: writeStreams is resumable without duplication: the indices stay
\* within 0 .. number of sources; a source is read only at its index and
\* only if it has not been read since the last record; a frame index moves
\* on by one at the push of the frame just read; the indices go back to 0
\* only in the step that writes the record, which needs every source read.
C25_ResumableWithoutDuplication ==
    /\ [](/\ frame_client_idx \in 0 .. NumFrameSources
          /\ position_client_idx \in 0 .. NumPositionSources)
    /\ [][/\ \A i \in FrameSources :
                frames_delivered'[i] # frames_delivered[i] =>
                    /\ i = frame_client_idx + 1
                    /\ frames_delivered[i] = Len(position_file)
                    /\ frames_delivered'[i] = frames_delivered[i] + 1
          /\ \A j \in PositionSources :
                positions_delivered'[j] # positions_delivered[j] =>
                    /\ j = position_client_idx + 1
                    /\ positions_delivered[j] = Len(position_file)
                    /\ positions_delivered'[j] = positions_delivered[j] + 1
                    /\ position_client_idx' = j
          /\ frame_client_idx' # frame_client_idx =>
                \/ /\ rec_pc = "push"
                   /\ frame_client_idx' = frame_client_idx + 1
                   /\ frames_delivered[frame_client_idx'] = Len(position_file) + 1
                \/ /\ frame_client_idx' = 0
                   /\ Len(position_file') = Len(position_file) + 1
          /\ position_client_idx' < position_client_idx =>
                /\ position_client_idx' = 0
                /\ Len(position_file') = Len(position_file) + 1
          /\ position_file' # position_file =>
                /\ frame_client_idx = NumFrameSources
                /\ position_client_idx = NumPositionSources
                /\ frame_client_idx' = 0
                /\ position_client_idx' = 0
                /\ Len(position_file') = Len(position_file) + 1]_vars

\* a tick that a failed read had interrupted was resumed by a later call,
\* which wrote its record and put the indices back to 0
C25_Witness ==
    /\ record_resumed
    /\ Len(position_file) = 1
    /\ frame_client_idx = 0
    /\ position_client_idx = 0
    /\ \A i \in FrameSources : frames_delivered[i] = 1

\* C26: after running is set to false every frame-writer thread eventually
\* exits and the destructor's joins return, whether or not its queue is
\* empty
C26_WritersExitAfterStop ==
    ~running ~> (/\ \A i \in FrameSources : writer_pc[i] = "exited"
                 /\ rec_pc = "destroyed")

\* the destructor has returned and a writer thread left a frame in its queue
C26_Witness ==
    /\ rec_pc = "destroyed"
    /\ \E i \in FrameSources : frame_write_buffers[i] # << >>
    /\ \E i \in FrameSources : frame_write_buffers[i] = << >>

\* C27: a writer thread opens its video writer lazily: initializeWriter is
\* called only with a frame taken from the thread's own queue, which is then
\* written; every write happens after an initializeWriter call of that
\* stream; an open writer is not initialised again; front and pop are
\* applied only to a non-empty queue.
C27_LazyWriterOpen ==
    /\ [](\A i \in FrameSources :
            /\ Len(video_writers[i].inits) <= Len(video_files[i])
            /\ video_files[i] # << >> => video_writers[i].inits # << >>
            /\ video_writers[i].opened => video_writers[i].inits # << >>
            /\ \A k \in 1 .. Len(video_writers[i].inits) :
                  /\ video_writers[i].inits[k].stream = i
                  /\ \E n \in 1 .. Len(video_files[i]) :
                        video_files[i][n] = video_writers[i].inits[k].frame
            /\ video_files[i] # << >> =>
                  video_writers[i].inits[1].frame = video_files[i][1])
    /\ [][\A i \in FrameSources :
            /\ video_writers[i].opened =>
                  video_writers'[i].inits = video_writers[i].inits
            /\ video_writers'[i] # video_writers[i] =>
                  video_files'[i] # video_files[i]
            /\ (\/ video_files'[i] # video_files[i]
                \/ Len(frame_write_buffers'[i]) < Len(frame_write_buffers[i])) =>
                  /\ frame_write_buffers[i] # << >>
                  /\ video_files'[i] =
                        Append(video_files[i], Head(frame_write_buffers[i]))
                  /\ frame_write_buffers'[i] = Tail(frame_write_buffers[i])]_vars

\* a writer thread has written two frames through a writer it opened once,
\* with the first of them
C27_Witness ==
    \E i \in FrameSources :
        /\ video_writers[i].opened
        /\ Len(video_writers[i].inits) = 1
        /\ Len(video_files[i]) = 2


\* C28: an allocation failure in createSharedObject is not swallowed: the
\* shared object is accessed (locked, written, notified, also by the
\* destructor) only after a successful creation, and shared_object_created
\* is true only with the object created.
C28_AllocationFailureNotSwallowed ==
    /\ ub_access = {}
    /\ \A s \in Servers : shared_object_created[s] => shared_object[s] # NoRegion

\* C29: the sample index given to the sink is 0 on the first process() call
\* and on every later call one more than on the call before, for any number
\* of calls; process() never reports end-of-stream.
C29_SampleIndexGrows ==
    /\ position_sink # << >> => position_sink[1].sample = 0
    /\ \A k \in 1 .. Len(position_sink) - 1 :
          /\ position_sink[k + 1].sample > position_sink[k].sample
          /\ position_sink[k + 1].sample = position_sink[k].sample + 1
    /\ process_result # "true"

====
